---------------------------- MODULE Spec2Model ----------------------------
(***************************************************************************)
(* A model of remover.py: the brace parser that builds the CssBlock tree,  *)
(* the selector normalizer, the two-stage regex tokenizer and the          *)
(* orchestration in main (index build, then stylesheet parsing).           *)
(*                                                                         *)
(* Texts are sequences of one-character strings.  Offsets are Python's     *)
(* 0-based offsets; Slice(s, i, j) is Python's s[i:j].                     *)
(***************************************************************************)
EXTENDS Integers, Sequences, FiniteSets, TLC

VARIABLES
    input_str,      \* parse: the text being parsed
    match_pos,      \* parse: where re.finditer resumes its search
    prev_index,     \* parse: start of the next unclassified span
    heap,           \* the CssBlock objects, in creation order (id = position)
    blocks,         \* parse: the list of roots (ids)
    current_block,  \* parse: id of the open block, None when absent
    pstate,         \* parse: "idle", "scan", "returned" or "raised"
    tok_input,      \* find_tokens: the text given to it
    tok_result,     \* find_tokens: the list it returned
    tstate,         \* find_tokens: "idle", "call" or "returned"
    search_files,   \* main: texts of the search files, in argument order
    input_files,    \* main: texts of the stylesheet files, in argument order
    si,             \* main: number of search files opened so far
    tokens,         \* main: tokens of the current search file not yet examined
    index,          \* main: the set of tokens
    index_size,     \* main: the running total
    fi,             \* main: number of stylesheet files opened so far
    mstate,         \* main: "idle", "index", "remove", "parse", "done" or "raised"
    args,           \* the script: sys.argv[1:]
    stdout,         \* the lines written by print (the progress counter is left out)
    exit_status     \* the script: None while running, the status once sys.exit is called

parse_vars == <<input_str, match_pos, prev_index, heap, blocks, current_block, pstate>>
tok_vars   == <<tok_input, tok_result, tstate>>
main_vars  == <<search_files, input_files, si, tokens, index, index_size, fi, mstate>>
cli_vars   == <<args, stdout, exit_status>>
vars       == <<parse_vars, tok_vars, main_vars, cli_vars>>

----------------------------------------------------------------------------
(* Bounds of the model *)

MaxLen == 4          \* longest text enumerated for parse
MaxTokLen == 5       \* longest text enumerated for find_tokens
MaxFiles == 2        \* most files on either side of the separator
MaxArgs == 4         \* most command-line arguments

\* Python's None
None == 0 - 1

\* Characters
LBrace == "{"
RBrace == "}"
Semi   == ";"
NL     == "\n"
Tab    == "\t"
Space  == " "
Amp    == "&"
At     == "@"

Alphabet == {LBrace, RBrace, Semi, NL, Tab, Space, Amp, At, "a"}

SeqsUpTo(S, n) == UNION {[1..k -> S] : k \in 0..n}

----------------------------------------------------------------------------
(* Python string primitives *)

\* s[i:j] for 0 <= i, j (Python clamps j to len(s); i > j gives "")
Slice(s, i, j) == SubSeq(s, i + 1, IF j > Len(s) THEN Len(s) ELSE j)


\* s[::-1]
Reversed(s) == [k \in 1..Len(s) |-> s[Len(s) + 1 - k]]

\* s.index(c): offset of the first occurrence; None stands for ValueError
IndexOf(s, c) ==
    LET hits == {k \in 0..(Len(s) - 1) : s[k + 1] = c}
    IN  IF hits = {} THEN None
        ELSE CHOOSE k \in hits : \A j \in hits : k <= j

\* find(input_str, search, reverse)
find(s, search, reverse) ==
    LET idx == IndexOf(IF reverse THEN Reversed(s) ELSE s, search)
    IN  IF idx = None THEN None
        ELSE IF reverse THEN Len(s) - 1 - idx ELSE idx

max(a, b) == IF a >= b THEN a ELSE b

\* s.strip(chars): leading and trailing characters of the set removed
RECURSIVE LStrip(_, _)
LStrip(s, chars) ==
    IF s /= <<>> /\ Head(s) \in chars THEN LStrip(Tail(s), chars) ELSE s

Strip(s, chars) == Reversed(LStrip(Reversed(LStrip(s, chars)), chars))

\* s.replace(old, new) for a one-character old
RECURSIVE Replace(_, _, _)
Replace(s, old, new) ==
    IF s = <<>> THEN <<>>
    ELSE (IF Head(s) = old THEN new ELSE <<Head(s)>>) \o Replace(Tail(s), old, new)

\* c in s
Contains(s, c) == \E k \in 1..Len(s) : s[k] = c

----------------------------------------------------------------------------
(* class CssBlock *)

CssBlock(rule, content, start, end) ==
    [rule |-> rule, content |-> content, start |-> start, end |-> end,
     parent |-> None, children |-> <<>>]

is_root(h, b) == h[b].parent = None

_set_parent(h, b, parent) == [h EXCEPT ![b].parent = parent]

\* add with the back-pointer forgotten
add_NoSetParent(h, self, child, end) ==
    LET h2 == [h EXCEPT ![self].children = Append(@, child)]
    IN  [h2 EXCEPT ![self].end = end]

\* self.add(child, end), end given
add(h, self, child, end) ==
    LET h1 == _set_parent(h, child, self)
        h2 == [h1 EXCEPT ![self].children = Append(@, child)]
    IN  [h2 EXCEPT ![self].end = end]

\* add_content doing what set_content does: the content is replaced
add_content_Overwrite(h, self, content, end) ==
    [h EXCEPT ![self].content = content, ![self].end = end]

\* self.add_content(content, end), end given
add_content(h, self, content, end) ==
    [h EXCEPT ![self].content = @ \o content, ![self].end = end]

----------------------------------------------------------------------------
(* parse(input_str), one step per match of re.finditer("[\{\}]", input_str) *)

\* offset of the next brace at or after pos, None when the iterator is exhausted
NextMatch(s, pos) ==
    LET hits == {k \in pos..(Len(s) - 1) : s[k + 1] \in {LBrace, RBrace}}
    IN  IF hits = {} THEN None
        ELSE CHOOSE k \in hits : \A j \in hits : k <= j

\* the boundary put after the earlier of the last ";" and the last newline
PrevEndIndex_Earlier(s, prev, i) ==
    LET span == Slice(s, prev, i)
        prev_end_block_index == find(span, Semi, TRUE)
        prev_end_line_index  == find(span, NL, TRUE)
    IN  IF prev_end_line_index = None /\ prev_end_block_index = None THEN prev
        ELSE IF prev_end_line_index = None THEN prev + prev_end_block_index + 1
        ELSE IF prev_end_block_index = None THEN prev + prev_end_line_index + 1
        ELSE IF prev_end_line_index <= prev_end_block_index
             THEN prev + prev_end_line_index + 1
             ELSE prev + prev_end_block_index + 1

\* prev_end_index that looks for the last newline only
PrevEndIndex_NoSemi(s, prev, i) ==
    LET span == Slice(s, prev, i)
        prev_end_line_index == find(span, NL, TRUE)
    IN  IF prev_end_line_index /= None
        THEN max(prev, prev + prev_end_line_index + 1)
        ELSE prev

\* prev_end_index of lines 141-151
PrevEndIndex(s, prev, i) ==
    LET span == Slice(s, prev, i)
        prev_end_block_index == find(span, Semi, TRUE)
        prev_end_line_index  == find(span, NL, TRUE)
        e1 == IF prev_end_line_index /= None
              THEN max(prev, prev + prev_end_line_index + 1)
              ELSE prev
    IN  IF prev_end_block_index /= None
        THEN max(e1, prev + prev_end_block_index + 1)
        ELSE e1

\* a "{" while no block is open with the leftover content kept in the prelude
ParseOpenRoot_KeepLeftover ==
    /\ pstate = "scan"
    /\ LET i == NextMatch(input_str, match_pos) IN
       /\ i /= None
       /\ input_str[i + 1] = LBrace
       /\ current_block = None
       /\ LET rule == Slice(input_str, prev_index, i)
              new  == Len(heap) + 1
          IN  /\ heap' = Append(heap, CssBlock(rule, <<>>, prev_index, i))
              /\ current_block' = new
              /\ blocks' = Append(blocks, new)
       /\ prev_index' = i + 1
       /\ match_pos' = i + 1
    /\ UNCHANGED <<input_str, pstate>>

\* lines 155-157: a "{" while no block is open
ParseOpenRoot ==
    /\ pstate = "scan"
    /\ LET i == NextMatch(input_str, match_pos) IN
       /\ i /= None
       /\ input_str[i + 1] = LBrace
       /\ current_block = None
       /\ LET prev_end_index == PrevEndIndex(input_str, prev_index, i)
              rule == Slice(input_str, prev_end_index, i)
              new  == Len(heap) + 1
          IN  /\ heap' = Append(heap, CssBlock(rule, <<>>, prev_end_index, i))
              /\ current_block' = new
              /\ blocks' = Append(blocks, new)
       /\ prev_index' = i + 1
       /\ match_pos' = i + 1
    /\ UNCHANGED <<input_str, pstate>>

\* a "{" inside an open block with the leftover content thrown away
ParseOpenChild_DropLeftover ==
    /\ pstate = "scan"
    /\ LET i == NextMatch(input_str, match_pos) IN
       /\ i /= None
       /\ input_str[i + 1] = LBrace
       /\ current_block /= None
       /\ LET prev_end_index == PrevEndIndex(input_str, prev_index, i)
              rule == Slice(input_str, prev_end_index, i)
              new  == Len(heap) + 1
              h1   == add_content(heap, current_block, <<>>, prev_end_index)
              h2   == Append(h1, CssBlock(rule, <<>>, prev_end_index, i))
          IN  /\ heap' = add(h2, current_block, new, i)
              /\ current_block' = new
       /\ prev_index' = i + 1
       /\ match_pos' = i + 1
    /\ UNCHANGED <<input_str, blocks, pstate>>

\* lines 158-162: a "{" inside an open block
ParseOpenChild ==
    /\ pstate = "scan"
    /\ LET i == NextMatch(input_str, match_pos) IN
       /\ i /= None
       /\ input_str[i + 1] = LBrace
       /\ current_block /= None
       /\ LET prev_end_index == PrevEndIndex(input_str, prev_index, i)
              parent_content == Slice(input_str, prev_index, prev_end_index)
              rule == Slice(input_str, prev_end_index, i)
              new  == Len(heap) + 1
              h1   == add_content(heap, current_block, parent_content, prev_end_index)
              h2   == Append(h1, CssBlock(rule, <<>>, prev_end_index, i))
          IN  /\ heap' = add(h2, current_block, new, i)
              /\ current_block' = new
       /\ prev_index' = i + 1
       /\ match_pos' = i + 1
    /\ UNCHANGED <<input_str, blocks, pstate>>

\* a "}" while a block is open that leaves the closed block current
ParseClose_NoAscend ==
    /\ pstate = "scan"
    /\ LET i == NextMatch(input_str, match_pos) IN
       /\ i /= None
       /\ input_str[i + 1] = RBrace
       /\ current_block /= None
       /\ heap' = add_content(heap, current_block, Slice(input_str, prev_index, i), i + 1)
       /\ prev_index' = i + 1
       /\ match_pos' = i + 1
    /\ UNCHANGED <<input_str, blocks, current_block, pstate>>

\* a "}" while a block is open that ends the block at the brace, not after it
ParseClose_EndAtBrace ==
    /\ pstate = "scan"
    /\ LET i == NextMatch(input_str, match_pos) IN
       /\ i /= None
       /\ input_str[i + 1] = RBrace
       /\ current_block /= None
       /\ heap' = add_content(heap, current_block, Slice(input_str, prev_index, i), i)
       /\ current_block' = heap[current_block].parent
       /\ prev_index' = i + 1
       /\ match_pos' = i + 1
    /\ UNCHANGED <<input_str, blocks, pstate>>

\* lines 163-166: a "}" while a block is open
ParseClose ==
    /\ pstate = "scan"
    /\ LET i == NextMatch(input_str, match_pos) IN
       /\ i /= None
       /\ input_str[i + 1] = RBrace
       /\ current_block /= None
       /\ heap' = add_content(heap, current_block, Slice(input_str, prev_index, i), i + 1)
       /\ current_block' = heap[current_block].parent
       /\ prev_index' = i + 1
       /\ match_pos' = i + 1
    /\ UNCHANGED <<input_str, blocks, pstate>>

\* a "}" with no block open skipped silently, the scan going on
ParseCloseNone_Ascend ==
    /\ pstate = "scan"
    /\ LET i == NextMatch(input_str, match_pos) IN
       /\ i /= None
       /\ input_str[i + 1] = RBrace
       /\ current_block = None
       /\ prev_index' = i + 1
       /\ match_pos' = i + 1
    /\ UNCHANGED <<input_str, heap, blocks, current_block, pstate>>

\* line 165 with current_block None: None has no add_content, AttributeError
ParseCloseNone ==
    /\ pstate = "scan"
    /\ LET i == NextMatch(input_str, match_pos) IN
       /\ i /= None
       /\ input_str[i + 1] = RBrace
       /\ current_block = None
    /\ pstate' = "raised"
    /\ UNCHANGED <<input_str, match_pos, prev_index, heap, blocks, current_block>>

\* parse refusing a text that ends with a block still open
ParseReturn_RejectOpen ==
    /\ pstate = "scan"
    /\ NextMatch(input_str, match_pos) = None
    /\ pstate' = (IF current_block = None THEN "returned" ELSE "raised")
    /\ UNCHANGED <<input_str, match_pos, prev_index, heap, blocks, current_block>>

\* line 170: the iterator is exhausted, return blocks
ParseReturn ==
    /\ pstate = "scan"
    /\ NextMatch(input_str, match_pos) = None
    /\ pstate' = "returned"
    /\ UNCHANGED <<input_str, match_pos, prev_index, heap, blocks, current_block>>

ParseStep ==
    \/ ParseOpenRoot
    \/ ParseOpenChild
    \/ ParseClose
    \/ ParseCloseNone
    \/ ParseReturn

\* lines 133-135: the state on entry to parse(text)
ParseEntry(text) ==
    /\ input_str = text
    /\ match_pos = 0
    /\ prev_index = 0
    /\ heap = <<>>
    /\ blocks = <<>>
    /\ current_block = None
    /\ pstate = "scan"

----------------------------------------------------------------------------
(* CssBlock.get_normalized_rule and what it calls.  A call either returns   *)
(* a value or raises; exc names the exception, "" when the call returned.   *)

Return(v) == [exc |-> "", val |-> v]
Raise(e)  == [exc |-> e, val |-> <<>>]

\* self.rule[0] != '@'; indexing an empty rule raises IndexError
is_selector_rule(h, b) ==
    IF h[b].rule = <<>> THEN Raise("IndexError")
    ELSE Return(h[b].rule[1] /= At)

\* get_normalized_rule without the is_root test of line 50
RECURSIVE get_normalized_rule_NoRootCheck(_, _)
get_normalized_rule_NoRootCheck(h, b) ==
    LET rule == h[b].rule
        sel  == is_selector_rule(h, b)
    IN  IF sel.exc /= "" THEN Raise(sel.exc)
        ELSE IF ~sel.val THEN Return(Strip(rule, {Space}))
        ELSE IF ~Contains(rule, Amp) \/ is_root(h, b) THEN Return(Strip(rule, {Space}))
        ELSE LET psel == is_selector_rule(h, h[b].parent)
             IN  IF psel.exc /= "" THEN Raise(psel.exc)
                 ELSE IF ~psel.val THEN Raise("Exception")
                 ELSE LET parent_rule == get_normalized_rule_NoRootCheck(h, h[b].parent)
                      IN  IF parent_rule.exc /= "" THEN parent_rule
                          ELSE Return(Strip(Replace(rule, Amp, parent_rule.val), {Space}))

\* get_normalized_rule putting the parent's prelude as written for each "&"
get_normalized_rule_ParentRaw(h, b) ==
    LET rule == h[b].rule
        sel  == is_selector_rule(h, b)
    IN  IF sel.exc /= "" THEN Raise(sel.exc)
        ELSE IF ~sel.val THEN Return(Strip(rule, {Space}))
        ELSE IF ~Contains(rule, Amp) THEN Return(Strip(rule, {Space}))
        ELSE IF is_root(h, b) THEN Raise("Exception")
        ELSE LET psel == is_selector_rule(h, h[b].parent)
             IN  IF psel.exc /= "" THEN Raise(psel.exc)
                 ELSE IF ~psel.val THEN Raise("Exception")
                 ELSE Return(Strip(Replace(rule, Amp, h[h[b].parent].rule), {Space}))

RECURSIVE get_normalized_rule(_, _)
get_normalized_rule(h, b) ==
    LET rule == h[b].rule
        sel  == is_selector_rule(h, b)
    IN  IF sel.exc /= "" THEN Raise(sel.exc)
        ELSE IF ~sel.val THEN Return(Strip(rule, {Space}))
        ELSE IF ~Contains(rule, Amp) THEN Return(Strip(rule, {Space}))
        ELSE IF is_root(h, b) THEN Raise("Exception")
        ELSE LET psel == is_selector_rule(h, h[b].parent)
             IN  IF psel.exc /= "" THEN Raise(psel.exc)
                 ELSE IF ~psel.val THEN Raise("Exception")
                 ELSE LET parent_rule == get_normalized_rule(h, h[b].parent)
                      IN  IF parent_rule.exc /= "" THEN parent_rule
                          ELSE Return(Strip(Replace(rule, Amp, parent_rule.val), {Space}))

\* number of calls of get_normalized_rule that one call on block b makes,
\* itself included: line 53 is the only call, made on the parent
RECURSIVE Calls(_, _)
Calls(h, b) ==
    LET rule == h[b].rule
        sel  == is_selector_rule(h, b)
    IN  IF sel.exc /= "" \/ ~sel.val THEN 1
        ELSE IF ~Contains(rule, Amp) \/ is_root(h, b) THEN 1
        ELSE LET psel == is_selector_rule(h, h[b].parent)
             IN  IF psel.exc /= "" \/ ~psel.val THEN 1
                 ELSE 1 + Calls(h, h[b].parent)

\* s.split(sep) for a one-character sep: the pieces between the separators
RECURSIVE Split(_, _)
Split(s, sep) ==
    LET k == IndexOf(s, sep)
    IN  IF k = None THEN <<s>>
        ELSE <<Slice(s, 0, k)>> \o Split(Slice(s, k + 1, Len(s)), sep)

\* lines 56-60; none tells a returned None from a returned list
get_selectors(h, b) ==
    LET sel == is_selector_rule(h, b)
    IN  IF sel.exc /= "" THEN [exc |-> sel.exc, none |-> FALSE, val |-> <<>>]
        ELSE IF ~sel.val THEN [exc |-> "", none |-> TRUE, val |-> <<>>]
        ELSE [exc |-> "", none |-> FALSE,
              val |-> SelectSeq(Split(h[b].rule, Space), LAMBDA x : Len(x) > 0)]

----------------------------------------------------------------------------
(* find_tokens and the two regular expressions it runs *)

Letters == {"a", "b", "c", "e", "f", "h", "o", "r", "v", "x", "y", "z"}
Digits  == {"0", "1"}

\* \w, \d, \s and \W of Python's re on str, over the characters of the model
IsWord(c)    == c \in Letters \cup Digits \cup {"_"}
IsDigit(c)   == c \in Digits
IsSpace(c)   == c \in {Space, Tab, NL}
IsNonWord(c) == ~IsWord(c)

\* [\W\s]
IsDelim(c) == IsNonWord(c) \/ IsSpace(c)
\* [\w_-] and [\w\d_-]
IsIdent(c) == IsWord(c) \/ IsDigit(c) \/ c \in {"_", "-"}

\* number of consecutive identifier characters of s from offset p on
RECURSIVE RunLen(_, _)
RunLen(s, p) ==
    IF p < Len(s) /\ IsIdent(s[p + 1]) THEN 1 + RunLen(s, p + 1) ELSE 0

\* "[\W\s]([\w_-]+[\w\d_-]*)[\W\s]" tried at offset p: the length of group 1
\* of the match the backtracking finds first (the longest), 0 when none
SelectorMatchAt(s, p) ==
    IF p >= Len(s) \/ ~IsDelim(s[p + 1]) THEN 0
    ELSE LET L  == RunLen(s, p + 1)
             ks == {k \in 1..L : p + 1 + k < Len(s) /\ IsDelim(s[p + 1 + k + 1])}
         IN  IF ks = {} THEN 0
             ELSE CHOOSE k \in ks : \A j \in ks : j <= k

\* find_all_groups(input_str, "[\W\s]([\w_-]+[\w\d_-]*)[\W\s]", 1) from offset pos on:
\* matches are leftmost, do not overlap, and consume both delimiters
RECURSIVE SelectorGroups(_, _)
SelectorGroups(s, pos) ==
    IF pos >= Len(s) THEN <<>>
    ELSE LET k == SelectorMatchAt(s, pos)
         IN  IF k = 0 THEN SelectorGroups(s, pos + 1)
             ELSE <<Slice(s, pos + 1, pos + 1 + k)>> \o SelectorGroups(s, pos + 1 + k + 1)

\* "([\w_-]+[\w\d_-])" tried at offset p: the length of the match, 0 when none
TokenMatchAt(s, p) ==
    LET L == RunLen(s, p) IN IF L >= 2 THEN L ELSE 0

\* find_all_groups(selector, "([\w_-]+[\w\d_-])", 1) from offset pos on
RECURSIVE TokenGroups(_, _)
TokenGroups(s, pos) ==
    IF pos >= Len(s) THEN <<>>
    ELSE LET k == TokenMatchAt(s, pos)
         IN  IF k = 0 THEN TokenGroups(s, pos + 1)
             ELSE <<Slice(s, pos, pos + k)>> \o TokenGroups(s, pos + k)

RECURSIVE TokensOf(_)
TokensOf(selectors) ==
    IF selectors = <<>> THEN <<>>
    ELSE TokenGroups(Head(selectors), 0) \o TokensOf(Tail(selectors))

find_tokens(s) == TokensOf(SelectorGroups(s, 0))

\* a call of find_tokens(tok_input)
TokCall ==
    /\ tstate = "call"
    /\ tok_result' = find_tokens(tok_input)
    /\ tstate' = "returned"
    /\ UNCHANGED <<tok_input, parse_vars, main_vars, cli_vars>>

----------------------------------------------------------------------------
(* main(input_files, search_files) *)

\* line 20 sets 4 * (1024 ** 3); the model scales the ceiling down so that
\* the texts it enumerates reach it
max_index_size == 6

\* lines 177-179: the next search file is read and tokenized
MainReadSearchFile ==
    /\ mstate = "index"
    /\ tokens = <<>>
    /\ si < Len(search_files)
    /\ si' = si + 1
    /\ tokens' = find_tokens(search_files[si + 1])
    /\ UNCHANGED <<search_files, input_files, index, index_size, fi, mstate>>
    /\ UNCHANGED <<parse_vars, tok_vars, cli_vars>>

\* the running total counting only the tokens newly stored
MainExamineToken_CountStored ==
    /\ mstate = "index"
    /\ tokens /= <<>>
    /\ LET token == Head(tokens)
           next_index_size == index_size + (IF token \in index THEN 0 ELSE Len(token))
       IN  IF next_index_size > max_index_size
           THEN /\ mstate' = "raised"
                /\ UNCHANGED <<tokens, index, index_size>>
           ELSE /\ index' = index \cup {token}
                /\ index_size' = next_index_size
                /\ tokens' = Tail(tokens)
                /\ UNCHANGED mstate
    /\ UNCHANGED <<search_files, input_files, si, fi>>
    /\ UNCHANGED <<parse_vars, tok_vars, cli_vars>>

\* lines 180-185: one token examined
MainExamineToken ==
    /\ mstate = "index"
    /\ tokens /= <<>>
    /\ LET token == Head(tokens)
           next_index_size == index_size + Len(token)
       IN  IF next_index_size > max_index_size
           THEN /\ mstate' = "raised"
                /\ UNCHANGED <<tokens, index, index_size>>
           ELSE /\ index' = index \cup {token}
                /\ index_size' = next_index_size
                /\ tokens' = Tail(tokens)
                /\ UNCHANGED mstate
    /\ UNCHANGED <<search_files, input_files, si, fi>>
    /\ UNCHANGED <<parse_vars, tok_vars, cli_vars>>

\* the report giving the running total where the token count belongs
MainReport_CountIsSize ==
    /\ mstate = "index"
    /\ tokens = <<>>
    /\ si = Len(search_files)
    /\ mstate' = "remove"
    /\ stdout' = stdout \o << <<"Index size", index_size, index_size>>,
                              <<"Removing unused styles...">> >>
    /\ UNCHANGED <<search_files, input_files, si, tokens, index, index_size, fi>>
    /\ UNCHANGED <<parse_vars, tok_vars, args, exit_status>>

\* lines 187-189: all search files done, the sizes are reported
MainReport ==
    /\ mstate = "index"
    /\ tokens = <<>>
    /\ si = Len(search_files)
    /\ mstate' = "remove"
    /\ stdout' = stdout \o << <<"Index size", index_size, Cardinality(index)>>,
                              <<"Removing unused styles...">> >>
    /\ UNCHANGED <<search_files, input_files, si, tokens, index, index_size, fi>>
    /\ UNCHANGED <<parse_vars, tok_vars, args, exit_status>>

\* lines 190-192: the next stylesheet is read and parse is entered
MainOpenInput ==
    /\ mstate = "remove"
    /\ fi < Len(input_files)
    /\ fi' = fi + 1
    /\ input_str' = input_files[fi + 1]
    /\ match_pos' = 0
    /\ prev_index' = 0
    /\ heap' = <<>>
    /\ blocks' = <<>>
    /\ current_block' = None
    /\ pstate' = "scan"
    /\ mstate' = "parse"
    /\ UNCHANGED <<search_files, input_files, si, tokens, index, index_size>>
    /\ UNCHANGED <<tok_vars, cli_vars>>

\* what the loop of line 190 does once parse has returned: line 193 breaks
AfterParse(opened, total) == "done"

\* lines 192-193: parse returned
MainParsed ==
    /\ mstate = "parse"
    /\ pstate = "returned"
    /\ mstate' = AfterParse(fi, Len(input_files))
    /\ UNCHANGED <<search_files, input_files, si, tokens, index, index_size, fi>>
    /\ UNCHANGED <<parse_vars, tok_vars, cli_vars>>

\* line 192: parse raised, nothing catches it
MainParseRaised ==
    /\ mstate = "parse"
    /\ pstate = "raised"
    /\ mstate' = "raised"
    /\ UNCHANGED <<search_files, input_files, si, tokens, index, index_size, fi>>
    /\ UNCHANGED <<parse_vars, tok_vars, cli_vars>>

\* parse running inside main
MainParseStep ==
    /\ mstate = "parse"
    /\ ParseStep
    /\ UNCHANGED <<main_vars, tok_vars, cli_vars>>

----------------------------------------------------------------------------
(* Inputs *)

ParseFixtures == {
    <<"a", " ", "{", " ", "b", " ", "{", " ", "c", " ", "}">>,  \* 'a { b { c }'
    <<".", "a", "{", "&", ":", "h", "o", "v", "e", "r", "{", "}", "}">>,  \* '.a{&:hover{}}'
    <<"a", "{", "x", ";", "b", "{", "y", "}", "z", "}">>,  \* 'a{x;b{y}z}'
    <<"a", "{", "\t", "&", "{", "}", "}">>,  \* 'a{\t&{}}'
    <<"@", "{", "a", "{", "&", "{", "&", "{", "}", "}", "}", "}">>,  \* '@{a{&{&{}}}}'
    <<"@", "{", "&", "{", "&", "{", "}", "}", "}">>,  \* '@{&{&{}}}'
    <<"x", ";", "a", "{", "}", "y", NL, "b", "{", "}", "z">>,  \* 'x;a{}y\nb{}z'
    <<"a", "{", "b", "{", "}", "c", "{", "}", "}">>  \* 'a{b{}c{}}'
    }

TokAlphabet == {"a", "1", "_", "-", ".", Space}

TokFixtures == {
    <<".", "f", "o", "o", "-", "b", "a", "r", ":", "h", "o", "v", "e", "r", ",", " ", "#", "b", "a", "z", "_", "1">>,  \* '.foo-bar:hover, #baz_1'
    <<" ", "f", "o", "o", "-", "b", "a", "r", " ", " ", "b", "a", "z", "_", "1", " ">>  \* ' foo-bar  baz_1 '
    }

SearchTexts == {
    <<" ", "a", "b", " ">>,  \* ' ab '
    <<" ", "a", "b", " ", " ", "a", "b", "c", " ">>,  \* ' ab  abc '
    <<" ", "a", "b", "c", " ">>,  \* ' abc '
    <<"a", "b">>  \* 'ab'
    }

InputTexts == {
    <<"a", "{", "}">>,  \* 'a{}'
    <<"a", "{", "b", "{", "}", "}">>,  \* 'a{b{}}'
    <<"}">>  \* '}'
    }

FileLists(S) == UNION {[1..k -> S] : k \in 1..MaxFiles}

ParseIdle ==
    /\ input_str = <<>>
    /\ match_pos = 0
    /\ prev_index = 0
    /\ heap = <<>>
    /\ blocks = <<>>
    /\ current_block = None
    /\ pstate = "idle"

TokIdle ==
    /\ tok_input = <<>>
    /\ tok_result = <<>>
    /\ tstate = "idle"

MainIdle ==
    /\ search_files = <<>>
    /\ input_files = <<>>
    /\ si = 0
    /\ tokens = <<>>
    /\ index = {}
    /\ index_size = 0
    /\ fi = 0
    /\ mstate = "idle"

CliIdle ==
    /\ args = <<>>
    /\ stdout = <<>>
    /\ exit_status = None

----------------------------------------------------------------------------
(* Specifications *)

\* parse(text) on its own
InitParse ==
    /\ \E text \in SeqsUpTo(Alphabet, MaxLen) \cup ParseFixtures : ParseEntry(text)
    /\ TokIdle
    /\ MainIdle
    /\ CliIdle

NextParse ==
    \/ ParseOpenRoot /\ UNCHANGED <<tok_vars, main_vars, cli_vars>>
    \/ ParseOpenChild /\ UNCHANGED <<tok_vars, main_vars, cli_vars>>
    \/ ParseClose /\ UNCHANGED <<tok_vars, main_vars, cli_vars>>
    \/ ParseCloseNone /\ UNCHANGED <<tok_vars, main_vars, cli_vars>>
    \/ ParseReturn /\ UNCHANGED <<tok_vars, main_vars, cli_vars>>

SpecParse == InitParse /\ [][NextParse]_vars

\* find_tokens(text) on its own
InitTok ==
    /\ tok_input \in SeqsUpTo(TokAlphabet, MaxTokLen) \cup TokFixtures
    /\ tok_result = <<>>
    /\ tstate = "call"
    /\ ParseIdle
    /\ MainIdle
    /\ CliIdle

NextTok == TokCall

SpecTok == InitTok /\ [][NextTok]_vars

\* main(input_files, search_files), lines 174-176 done
InitMain ==
    /\ search_files \in FileLists(SearchTexts)
    /\ input_files \in FileLists(InputTexts)
    /\ si = 0
    /\ tokens = <<>>
    /\ index = {}
    /\ index_size = 0
    /\ fi = 0
    /\ mstate = "index"
    /\ args = <<>>
    /\ stdout = << <<"Building index...">> >>
    /\ exit_status = None
    /\ ParseIdle
    /\ TokIdle

NextMain ==
    \/ MainReadSearchFile
    \/ MainExamineToken
    \/ MainReport
    \/ MainOpenInput
    \/ MainParseStep
    \/ MainParsed
    \/ MainParseRaised

SpecMain == InitMain /\ [][NextMain]_vars

----------------------------------------------------------------------------
(* The script, lines 201-214 *)

Separator == "--"

\* the words an argument list is made of
ArgWords == {Separator, "-h", "a.css", "x.js"}

ArgLists == SeqsUpTo(ArgWords, MaxArgs)

\* the file system: what f.read() gives for each path; every path is readable
FileText(path) ==
    CASE path = "a.css"   -> <<"a", "{", "b", "{", "}", "}">>
      [] path = "x.js"    -> <<" ", "a", "b", " ", " ", "a", "b", "c", " ">>
      [] path = "-h"      -> <<"}">>
      [] path = Separator -> <<" ", "a", "b", "c", " ">>

ReadAll(paths) == [k \in 1..Len(paths) |-> FileText(paths[k])]

\* '--' in args
HasSeparator(a) == Contains(a, Separator)

\* args[:delimiter] and args[delimiter+1:] with delimiter = args.index('--')
InputArgs(a)  == Slice(a, 0, IndexOf(a, Separator))
SearchArgs(a) == Slice(a, IndexOf(a, Separator) + 1, Len(a))

\* line 211 without its second test
TooFew_InputsOnly(inputs, searches) == Len(inputs) < 1

\* line 211
TooFew(inputs, searches) == Len(inputs) < 1 \/ Len(searches) < 1

\* exit_with_help(): the usage text is printed and sys.exit(0) ends the script
exit_with_help ==
    /\ stdout' = Append(stdout, <<"usage">>)
    /\ exit_status' = 0

Running == mstate = "idle" /\ exit_status = None

\* lines 204-205
CliNoSeparator ==
    /\ Running
    /\ ~HasSeparator(args)
    /\ exit_with_help
    /\ UNCHANGED <<args, parse_vars, tok_vars, main_vars>>

\* lines 207-212
CliTooFew ==
    /\ Running
    /\ HasSeparator(args)
    /\ TooFew(InputArgs(args), SearchArgs(args))
    /\ exit_with_help
    /\ UNCHANGED <<args, parse_vars, tok_vars, main_vars>>

\* line 214 and lines 174-176: main is entered
CliMain ==
    /\ Running
    /\ HasSeparator(args)
    /\ ~TooFew(InputArgs(args), SearchArgs(args))
    /\ input_files' = ReadAll(InputArgs(args))
    /\ search_files' = ReadAll(SearchArgs(args))
    /\ si' = 0
    /\ tokens' = <<>>
    /\ index' = {}
    /\ index_size' = 0
    /\ fi' = 0
    /\ mstate' = "index"
    /\ stdout' = Append(stdout, <<"Building index...">>)
    /\ UNCHANGED <<args, exit_status, parse_vars, tok_vars>>

InitCli ==
    /\ args \in ArgLists
    /\ stdout = <<>>
    /\ exit_status = None
    /\ ParseIdle
    /\ TokIdle
    /\ MainIdle

NextCli ==
    \/ CliNoSeparator
    \/ CliTooFew
    \/ CliMain
    \/ NextMain

SpecCli == InitCli /\ [][NextCli]_vars

----------------------------------------------------------------------------
(* Vocabulary of the properties *)

Blocks == 1..Len(heap)

Count(seq, x) == Cardinality({k \in DOMAIN seq : seq[k] = x})

\* number of "{" minus number of "}" among the first k characters
RECURSIVE Depth(_, _)
Depth(text, k) ==
    IF k = 0 THEN 0
    ELSE Depth(text, k - 1)
         + (IF text[k] = LBrace THEN 1 ELSE IF text[k] = RBrace THEN 0 - 1 ELSE 0)

\* no "}" without an earlier unmatched "{"
NoStrayClose(text) == \A k \in 0..Len(text) : Depth(text, k) >= 0

Balanced(text) == NoStrayClose(text) /\ Depth(text, Len(text)) = 0

\* offset of the first "}" met while no block is open, None when there is none
FirstStrayClose(text) ==
    LET neg == {k \in 1..Len(text) : Depth(text, k) < 0}
    IN  IF neg = {} THEN None
        ELSE (CHOOSE k \in neg : \A j \in neg : k <= j) - 1

\* the blocks still open: current_block and its ancestors
RECURSIVE OpenChain(_, _)
OpenChain(h, b) == IF b = None THEN {} ELSE {b} \cup OpenChain(h, h[b].parent)

\* what str.strip() with no argument removes, among the characters of the model
Whitespace == {Space, Tab, NL}

----------------------------------------------------------------------------
(* C1 *)

\* C1: in every state of parse, and in the returned tree, every block with a
\* parent occurs exactly once in its parent's children, in no other block's
\* children and not in the list of roots; every block without a parent is in
\* no children list and exactly once in the list of roots; every root has no
\* parent; and start <= end for every block.
C1_ParentInvariant ==
    /\ \A b \in Blocks :
        /\ heap[b].start <= heap[b].end
        /\ heap[b].parent /= None =>
              /\ heap[b].parent \in Blocks
              /\ Count(heap[heap[b].parent].children, b) = 1
              /\ \A o \in Blocks \ {heap[b].parent} : Count(heap[o].children, b) = 0
              /\ Count(blocks, b) = 0
        /\ heap[b].parent = None =>
              /\ \A o \in Blocks : Count(heap[o].children, b) = 0
              /\ Count(blocks, b) = 1
    /\ \A k \in DOMAIN blocks : blocks[k] \in Blocks /\ is_root(heap, blocks[k])

\* a returned tree with two roots and a block nested two deep
C1_Witness ==
    /\ pstate = "returned"
    /\ Len(blocks) >= 1
    /\ \E b \in Blocks : heap[b].parent /= None /\ heap[heap[b].parent].parent /= None

----------------------------------------------------------------------------
(* C2 *)

\* prelude + body + the children's prelude + body, recursively, in document order
RECURSIVE Flat(_, _)
RECURSIVE FlatAll(_, _)
Flat(h, b) == h[b].rule \o h[b].content \o FlatAll(h, h[b].children)
FlatAll(h, ids) ==
    IF ids = <<>> THEN <<>> ELSE Flat(h, Head(ids)) \o FlatAll(h, Tail(ids))

\* the text from the first root's start to the last root's end
WithoutOuterStray(text, h, roots) ==
    IF roots = <<>> THEN <<>>
    ELSE Slice(text, h[roots[1]].start, h[roots[Len(roots)]].end)

\* C2 as stated: for balanced text the flat concatenation equals the text
\* with only the leading and trailing top-level text removed.
C2_FlatRoundTrip ==
    (pstate = "returned" /\ Balanced(input_str)) =>
        FlatAll(heap, blocks) = WithoutOuterStray(input_str, heap, blocks)

\* a block written out again: prelude, "{", the body cut at each child's start
\* offset with the child written out there, "}"
RECURSIVE Render(_, _)
RECURSIVE RenderKids(_, _, _, _)
Render(h, b) ==
    h[b].rule \o <<LBrace>>
    \o RenderKids(h, h[b].children, h[b].content, h[b].start + Len(h[b].rule) + 1)
    \o <<RBrace>>
RenderKids(h, kids, body, cursor) ==
    IF kids = <<>> THEN body
    ELSE LET c == Head(kids)
             n == h[c].start - cursor
         IN  Slice(body, 0, n) \o Render(h, c)
             \o RenderKids(h, Tail(kids), Slice(body, n, Len(body)), h[c].end)

\* C2 amended: for balanced text every block of the returned tree, written out
\* as prelude, "{", body interleaved with its children at their offsets, "}",
\* is exactly text[start:end]; the roots' ranges are disjoint and in document
\* order, and the text outside them holds no brace.
C2_RenderRoundTrip ==
    (pstate = "returned" /\ Balanced(input_str)) =>
        /\ \A b \in Blocks :
              Render(heap, b) = Slice(input_str, heap[b].start, heap[b].end)
        /\ \A k \in 1..(Len(blocks) - 1) :
              heap[blocks[k]].end <= heap[blocks[k + 1]].start
        /\ \A k \in 0..(Len(input_str) - 1) :
              input_str[k + 1] \in {LBrace, RBrace} =>
                  \E j \in DOMAIN blocks :
                      heap[blocks[j]].start <= k /\ k < heap[blocks[j]].end

\* a balanced text parsed to a block that has body text on both sides of a child
C2_Witness ==
    /\ pstate = "returned"
    /\ Balanced(input_str)
    /\ \E b \in Blocks :
          /\ heap[b].children /= <<>>
          /\ heap[heap[b].children[1]].start > heap[b].start + Len(heap[b].rule) + 1
          /\ heap[heap[b].children[1]].end < heap[b].end - 1

----------------------------------------------------------------------------
(* C3 *)

\* C3: when the text has a "}" met while no block is open, parse never returns
\* a list, the iterator never moves past that brace, no block is created from
\* text after it, parse at that brace has no block open, and when parse has
\* raised it raised at that brace; parse raises in no other case.
C3_StrayCloseRaises ==
    LET u == FirstStrayClose(input_str)
    IN  /\ u /= None =>
              /\ pstate /= "returned"
              /\ match_pos <= u
              /\ prev_index <= u
              /\ \A b \in Blocks : heap[b].end <= u
              /\ (pstate = "scan" /\ NextMatch(input_str, match_pos) = u) =>
                     current_block = None
              /\ pstate = "raised" =>
                     NextMatch(input_str, match_pos) = u /\ current_block = None
        /\ u = None => pstate /= "raised"

\* parse raised at a "}" that follows a closed block and precedes more braces
C3_Witness ==
    /\ pstate = "raised"
    /\ heap /= <<>>
    /\ \E k \in (FirstStrayClose(input_str) + 2)..Len(input_str) :
          input_str[k] \in {LBrace, RBrace}

----------------------------------------------------------------------------
(* C4 *)

UnclosedFixture == <<"a", " ", "{", " ", "b", " ", "{", " ", "c", " ", "}">>

\* C4: a text in which every "}" has an earlier matching "{" never makes parse
\* raise; when parse returns, the blocks still open are as many as the "{"
\* never closed, they are in the tree, and each one's end is where its last
\* child's "{" or its own "{" left it; "a { b { c }" gives one root "a " left
\* open at end 6 holding one closed child " b " with body " c " and end 11.
C4_UnclosedKept ==
    /\ NoStrayClose(input_str) => pstate /= "raised"
    /\ (pstate = "returned" /\ NoStrayClose(input_str)) =>
          /\ Cardinality(OpenChain(heap, current_block)) = Depth(input_str, Len(input_str))
          /\ \A b \in OpenChain(heap, current_block) :
                /\ b \in Blocks
                /\ input_str[heap[b].end + 1] = LBrace
    /\ (pstate = "returned" /\ input_str = UnclosedFixture) =>
          /\ blocks = <<1>>
          /\ current_block = 1
          /\ heap = << [rule |-> <<"a", " ">>, content |-> <<>>, start |-> 0, end |-> 6,
                        parent |-> None, children |-> <<2>>],
                       [rule |-> <<" ", "b", " ">>, content |-> <<" ", "c", " ">>,
                        start |-> 3, end |-> 11, parent |-> 1, children |-> <<>>] >>

\* parse returned on "a { b { c }"
C4_Witness ==
    /\ pstate = "returned"
    /\ input_str = UnclosedFixture
    /\ current_block /= None

----------------------------------------------------------------------------
(* C5, C6, C7: get_normalized_rule on the blocks of a tree built by parse *)

StartsWithAt(rule) == rule /= <<>> /\ rule[1] = At

\* the block is a selector rule: its prelude does not start with "@"
SelectorRule(h, b) == ~StartsWithAt(h[b].rule)

\* every "&" on the way up has an enclosing selector rule to refer to
RECURSIVE ValidNesting(_, _)
ValidNesting(h, b) ==
    Contains(h[b].rule, Amp) =>
        /\ h[b].parent /= None
        /\ SelectorRule(h, h[b].parent)
        /\ ValidNesting(h, h[b].parent)

\* the normalized selector as section 4.4 defines it
RECURSIVE Normalized(_, _)
Normalized(h, b) ==
    IF ~Contains(h[b].rule, Amp) THEN Strip(h[b].rule, Whitespace)
    ELSE Strip(Replace(h[b].rule, Amp, Normalized(h, h[b].parent)), Whitespace)

\* C5 as stated: a selector rule with "&" whose parent is a selector rule
\* (and whose ancestors nest validly) normalizes to its prelude with every "&"
\* replaced by the parent's normalized selector and the surrounding whitespace
\* stripped; ".a" holding "&:hover" gives ".a:hover".
C5_NestingSubstitution ==
    \A b \in Blocks :
        (/\ SelectorRule(heap, b)
         /\ Contains(heap[b].rule, Amp)
         /\ heap[b].parent /= None
         /\ SelectorRule(heap, heap[b].parent)
         /\ ValidNesting(heap, b))
        => get_normalized_rule(heap, b) = Return(Normalized(heap, b))

\* a block with "&" fails exactly because an "&" on the way up has no
\* enclosing selector rule
RECURSIVE InvalidNesting(_, _)
InvalidNesting(h, b) ==
    /\ SelectorRule(h, b)
    /\ Contains(h[b].rule, Amp)
    /\ \/ is_root(h, b)
       \/ StartsWithAt(h[h[b].parent].rule)
       \/ (h[h[b].parent].rule /= <<>> /\ InvalidNesting(h, h[b].parent))

\* C6: in every tree state, get_normalized_rule raises the "&" exception, and
\* returns nothing, for every selector rule with "&" that is a root or whose
\* parent is an at-rule, and for every selector rule with "&" whose chain of
\* "&" parents leads to such a block; a root with prelude "&" raises.
C6_InvalidNestingRaises ==
    \A b \in Blocks :
        InvalidNesting(heap, b) => get_normalized_rule(heap, b) = Raise("Exception")

\* a root "&", and a nested "&" block whose "&" parent is itself invalid
C6_Witness ==
    /\ \E b \in Blocks : heap[b].rule = <<Amp>> /\ is_root(heap, b)
    /\ \E b \in Blocks :
          /\ InvalidNesting(heap, b)
          /\ ~is_root(heap, b)
          /\ ~StartsWithAt(heap[heap[b].parent].rule)
          /\ get_normalized_rule(heap, b).exc = "Exception"

\* C7 as stated: every block whose prelude has no "&" normalizes, without
\* error, to its prelude with all surrounding whitespace stripped.
C7_PlainPreludeStripped ==
    \A b \in Blocks :
        ~Contains(heap[b].rule, Amp) =>
            get_normalized_rule(heap, b) = Return(Strip(heap[b].rule, Whitespace))

----------------------------------------------------------------------------
(* C8 *)

\* the maximal runs of two or more identifier characters, in order
RECURSIVE MaximalRuns(_, _)
MaximalRuns(s, pos) ==
    IF pos >= Len(s) THEN <<>>
    ELSE IF ~IsIdent(s[pos + 1]) THEN MaximalRuns(s, pos + 1)
    ELSE LET n == CHOOSE n \in 1..(Len(s) - pos) :
                     /\ \A k \in 1..n : IsIdent(s[pos + k])
                     /\ (pos + n = Len(s) \/ ~IsIdent(s[pos + n + 1]))
         IN  (IF n >= 2 THEN <<Slice(s, pos, pos + n)>> ELSE <<>>)
             \o MaximalRuns(s, pos + n)

TokenizerExample ==
    <<".", "f", "o", "o", "-", "b", "a", "r", ":", "h", "o", "v", "e", "r", ",",
      " ", "#", "b", "a", "z", "_", "1">>

\* C8 as stated: find_tokens returns every maximal run of two or more
\* identifier characters, in order, runs at the start or end of the text and
\* runs one delimiter after the previous run included; the example text
\* yields <<"foo-bar", "baz_1">>.
C8_TokenizerExtraction ==
    tstate = "returned" =>
        IF tok_input = TokenizerExample
        THEN tok_result = << <<"f", "o", "o", "-", "b", "a", "r">>,
                             <<"b", "a", "z", "_", "1">> >>
        ELSE tok_result = MaximalRuns(tok_input, 0)

----------------------------------------------------------------------------
(* C9 *)

\* the tokens of the first n search files, in the order main examines them
RECURSIVE AllTokens(_, _)
AllTokens(files, n) ==
    IF n = 0 THEN <<>> ELSE AllTokens(files, n - 1) \o find_tokens(files[n])

\* total length of the first k tokens
RECURSIVE SumLen(_, _)
SumLen(toks, k) == IF k = 0 THEN 0 ELSE SumLen(toks, k - 1) + Len(toks[k])

\* position of the first token that takes the total over the ceiling, 0 if none
FailPoint(toks) ==
    LET over == {k \in 1..Len(toks) : SumLen(toks, k) > max_index_size}
    IN  IF over = {} THEN 0 ELSE CHOOSE k \in over : \A j \in over : k <= j

\* number of tokens examined (added) so far
Examined == Len(AllTokens(search_files, si)) - Len(tokens)

\* C9: with fp the first token whose length added to the lengths of all
\* tokens before it (duplicates included) exceeds the ceiling: the build never
\* gets past fp and never reaches the stylesheets; when it has raised, exactly
\* the fp - 1 tokens before it were added, the token at fp is the one being
\* examined and the total is the sum of the tokens before it; without such a
\* token (a total equal to the ceiling included) the build never raises.
C9_IndexCapacity ==
    LET all == AllTokens(search_files, Len(search_files))
        fp  == FailPoint(all)
    IN  /\ tokens = SubSeq(AllTokens(search_files, si), Examined + 1,
                           Len(AllTokens(search_files, si)))
        /\ fp /= 0 =>
              /\ Examined < fp
              /\ fi = 0
              /\ mstate \in {"index", "raised"}
        /\ (mstate = "raised" /\ fi = 0) =>
              /\ fp /= 0
              /\ Examined = fp - 1
              /\ Head(tokens) = all[fp]
              /\ index = {all[k] : k \in 1..(fp - 1)}
              /\ index_size = SumLen(all, fp - 1)
              /\ index_size + Len(all[fp]) > max_index_size
        /\ (mstate = "index" /\ fp = 0) => index_size <= max_index_size

\* the build raised on a token that is already in the set
C9_Witness ==
    /\ mstate = "raised"
    /\ fi = 0
    /\ Head(tokens) \in index
    /\ index_size < max_index_size

----------------------------------------------------------------------------
(* C10 *)

\* C10 as stated: no stylesheet is opened before every search file has been
\* tokenized and added to the index, and a run that ends without error, on
\* stylesheets none of which makes parse raise, has parsed every stylesheet.
C10_OrchestrationOrder ==
    /\ fi > 0 =>
          /\ si = Len(search_files)
          /\ tokens = <<>>
          /\ index = {AllTokens(search_files, si)[k] :
                          k \in 1..Len(AllTokens(search_files, si))}
    /\ (mstate = "done" /\ \A f \in DOMAIN input_files : NoStrayClose(input_files[f]))
          => fi = Len(input_files)

----------------------------------------------------------------------------
(* C11 *)

\* the argument list has no separator, or no path before or after the first one
UsageError(a) ==
    \/ \A k \in 1..Len(a) : a[k] /= Separator
    \/ LET d == CHOOSE k \in 1..Len(a) :
                    a[k] = Separator /\ \A j \in 1..(k - 1) : a[j] /= Separator
       IN  d = 1 \/ d = Len(a)

----------------------------------------------------------------------------
(* The text seen from the braces: what each block is made from *)

IsBrace(c) == c \in {LBrace, RBrace}

\* offset of the n-th "{" of the text; block n is created at it
NthOpen(text, n) ==
    CHOOSE k \in 0..(Len(text) - 1) :
        /\ text[k + 1] = LBrace
        /\ Cardinality({j \in 0..(k - 1) : text[j + 1] = LBrace}) = n - 1

\* where the span ending at offset i starts: just after the brace before i
SpanStart(text, i) ==
    LET bs == {k \in 0..(i - 1) : IsBrace(text[k + 1])}
    IN  IF bs = {} THEN 0 ELSE (CHOOSE k \in bs : \A j \in bs : j <= k) + 1

\* the prelude boundary of section 4.3 for a "{" at offset i and a span from prev
Boundary(text, prev, i) ==
    LET ends == {k + 1 : k \in {j \in prev..(i - 1) : text[j + 1] \in {Semi, NL}}}
    IN  IF ends = {} THEN prev ELSE CHOOSE e \in ends : \A f \in ends : f <= e

\* offset of the "}" matching the "{" at offset i, None when it is never closed
MatchingClose(text, i) ==
    LET cs == {j \in (i + 1)..(Len(text) - 1) : Depth(text, j + 1) = Depth(text, i)}
    IN  IF cs = {} THEN None ELSE CHOOSE j \in cs : \A k \in cs : j <= k

\* block b's "}" has been processed
Closed(b) ==
    LET j == MatchingClose(input_str, NthOpen(input_str, b))
    IN  j /= None /\ j < match_pos

----------------------------------------------------------------------------
(* C12 *)

\* C12: every block, made at the "{" at offset i from the span that starts at
\* prev (just after the brace before i, 0 when there is none), has as prelude
\* text[boundary:i] and as start boundary, where boundary is one past the
\* later of the last ";" and the last newline of the span, prev when the span
\* has neither; and prev <= boundary <= i.  At every "{" still to be
\* processed prev is prev_index.
C12_PreludeBoundary ==
    /\ \A b \in Blocks :
          LET i    == NthOpen(input_str, b)
              prev == SpanStart(input_str, i)
              bd   == Boundary(input_str, prev, i)
          IN  /\ heap[b].start = bd
              /\ heap[b].rule = Slice(input_str, bd, i)
              /\ prev <= bd /\ bd <= i
    /\ (pstate = "scan" /\ NextMatch(input_str, match_pos) /= None) =>
          prev_index = SpanStart(input_str, NextMatch(input_str, match_pos))

\* a block whose span holds a ";" and, after it, a newline, and then a prelude
C12_Witness ==
    \E b \in Blocks :
        LET i    == NthOpen(input_str, b)
            prev == SpanStart(input_str, i)
        IN  /\ heap[b].rule /= <<>>
            /\ heap[b].start >= prev + 2
            /\ input_str[heap[b].start] = NL
            /\ \E k \in prev..(heap[b].start - 2) : input_str[k + 1] = Semi

----------------------------------------------------------------------------
(* C13 *)

\* the "{" at offset c opens a direct child of the block opened at offset i
DirectChildOpen(text, i, c) ==
    /\ c > i
    /\ text[c + 1] = LBrace
    /\ Depth(text, c) = Depth(text, i) + 1

\* the character at offset k lies directly between the braces i and j, is no
\* brace and is in no direct child's prelude
InBody(text, i, j, k) ==
    /\ i < k /\ k < j
    /\ ~IsBrace(text[k + 1])
    /\ Depth(text, k) = Depth(text, i) + 1
    /\ ~\E c \in (k + 1)..(j - 1) :
            /\ DirectChildOpen(text, i, c)
            /\ Boundary(text, SpanStart(text, c), c) <= k

\* the characters of the body of the block between the braces i and j, from k on
RECURSIVE ExpectedBody(_, _, _, _)
ExpectedBody(text, i, j, k) ==
    IF k >= j THEN <<>>
    ELSE (IF InBody(text, i, j, k) THEN <<text[k + 1]>> ELSE <<>>)
         \o ExpectedBody(text, i, j, k + 1)

\* the leftover content text[prev_index:boundary] before each of the given
\* children's preludes, concatenated in order
RECURSIVE Leftovers(_, _, _)
Leftovers(text, h, kids) ==
    IF kids = <<>> THEN <<>>
    ELSE Slice(text, SpanStart(text, NthOpen(text, Head(kids))), h[Head(kids)].start)
         \o Leftovers(text, h, Tail(kids))

\* C13: the body of every closed block is the text directly between its
\* braces with each direct child's prelude and brace-delimited content cut
\* out: the leftover content before each child's prelude, in order, then the
\* text between the last brace inside it and its own "}".
C13_BodyComposition ==
    \A b \in Blocks :
        Closed(b) =>
            LET i == NthOpen(input_str, b)
                j == MatchingClose(input_str, i)
            IN  /\ heap[b].content = ExpectedBody(input_str, i, j, i + 1)
                /\ heap[b].content =
                       Leftovers(input_str, heap, heap[b].children)
                       \o Slice(input_str, SpanStart(input_str, j), j)

\* a closed block with body text on both sides of a child that has a prelude
C13_Witness ==
    \E b \in Blocks :
        /\ Closed(b)
        /\ Len(heap[b].children) = 1
        /\ heap[heap[b].children[1]].rule /= <<>>
        /\ heap[heap[b].children[1]].start > NthOpen(input_str, b) + 1
        /\ heap[heap[b].children[1]].end < heap[b].end - 1

----------------------------------------------------------------------------
(* C14 *)

\* the character at offset k is outside every block: no brace, met while no
\* block is open, and before the prelude boundary of the root that follows
TopLevel(text, k) ==
    /\ ~IsBrace(text[k + 1])
    /\ Depth(text, k) = 0
    /\ ~\E c \in (k + 1)..(Len(text) - 1) :
            /\ text[c + 1] = LBrace
            /\ Depth(text, c) = 0
            /\ Boundary(text, SpanStart(text, c), c) <= k

\* where the body of block b stops so far: its "}" once closed, else the
\* end of the processed text
BodyLimit(b) ==
    IF Closed(b) THEN MatchingClose(input_str, NthOpen(input_str, b)) ELSE prev_index

\* number of characters stored in the preludes and bodies of the first n blocks
RECURSIVE StoredLen(_, _)
StoredLen(h, n) ==
    IF n = 0 THEN 0
    ELSE Len(h[n].rule) + Len(h[n].content) + StoredLen(h, n - 1)

HasBrace(text) == \E k \in DOMAIN text : IsBrace(text[k])

\* C14: text outside every block is never stored. Every prelude and every
\* body is made of characters at offsets that are not top-level text, the
\* stored characters are as many as the processed characters that are neither
\* braces nor top-level text, and a text without braces parses to an empty
\* list of roots without error.
C14_TopLevelDropped ==
    /\ \A b \in Blocks :
          LET i == NthOpen(input_str, b)
              lim == BodyLimit(b)
          IN  /\ heap[b].rule = Slice(input_str, heap[b].start, i)
              /\ \A k \in heap[b].start..(i - 1) : ~TopLevel(input_str, k)
              /\ heap[b].content = ExpectedBody(input_str, i, lim, i + 1)
              /\ \A k \in (i + 1)..(lim - 1) :
                    InBody(input_str, i, lim, k) => ~TopLevel(input_str, k)
    /\ pstate \in {"scan", "returned"} =>
          StoredLen(heap, Len(heap)) =
             Cardinality({k \in 0..(prev_index - 1) :
                             ~IsBrace(input_str[k + 1]) /\ ~TopLevel(input_str, k)})
    /\ ~HasBrace(input_str) =>
          /\ heap = <<>> /\ blocks = <<>>
          /\ pstate /= "raised"
          /\ pstate = "scan" => ENABLED ParseReturn

\* a returned parse of a text with text before the first root's prelude,
\* between two roots and after the last "}"
C14_Witness ==
    /\ pstate = "returned"
    /\ Len(blocks) = 2
    /\ heap[blocks[1]].start > 0
    /\ heap[blocks[2]].start > heap[blocks[1]].end
    /\ heap[blocks[2]].end < Len(input_str)
    /\ TopLevel(input_str, 0)
    /\ TopLevel(input_str, heap[blocks[1]].end)
    /\ TopLevel(input_str, Len(input_str) - 1)

----------------------------------------------------------------------------
(* C15 *)

\* the blocks opened and not yet closed
Unclosed == {b \in Blocks : ~Closed(b)}

\* the greatest element of a set of block ids, None for the empty set
Latest(S) == IF S = {} THEN None ELSE CHOOSE b \in S : \A a \in S : a <= b

\* the blocks whose braces enclose the "{" of block b
Enclosing(b) ==
    {a \in 1..(b - 1) :
        LET j == MatchingClose(input_str, NthOpen(input_str, a))
        IN  j = None \/ j > NthOpen(input_str, b)}

\* the blocks opened while no block was open
RootBlocks == {b \in Blocks : Depth(input_str, NthOpen(input_str, b)) = 0}

\* C15: braces are matched last in, first out. The open blocks are as many
\* as the "{" processed minus the "}" processed; the current block is the
\* most recently opened block not yet closed, so that a "}" closes that
\* block and leaves its parent, the innermost block enclosing it, current;
\* the roots are the blocks opened while none was open, in document order;
\* there is one block per "{" processed, and after a balanced text no block
\* is open and the blocks are as many as the "{" of the text.
C15_LifoMatching ==
    /\ Cardinality(OpenChain(heap, current_block))
          = Count(Slice(input_str, 0, prev_index), LBrace)
            - Count(Slice(input_str, 0, prev_index), RBrace)
    /\ OpenChain(heap, current_block) = Unclosed
    /\ current_block = Latest(Unclosed)
    /\ \A b \in Blocks : heap[b].parent = Latest(Enclosing(b))
    /\ {blocks[k] : k \in DOMAIN blocks} = RootBlocks
    /\ \A k \in DOMAIN blocks : \A l \in DOMAIN blocks : k < l => blocks[k] < blocks[l]
    /\ Len(heap) = Count(Slice(input_str, 0, prev_index), LBrace)
    /\ (pstate = "returned" /\ Balanced(input_str)) =>
          /\ current_block = None
          /\ Len(heap) = Count(input_str, LBrace)

\* a "}" has just closed a nested block whose parent, still open, is current
\* again, with an earlier sibling already closed
C15_Witness ==
    /\ pstate = "scan"
    /\ current_block /= None
    /\ \E b \in Blocks : \E a \in Blocks :
          /\ a < b
          /\ Closed(a) /\ Closed(b)
          /\ heap[a].parent = current_block
          /\ heap[b].parent = current_block
          /\ prev_index = heap[b].end

----------------------------------------------------------------------------
(* C16 *)

\* the ranges of the blocks of a sequence are disjoint and increasing
Increasing(h, kids) ==
    \A k \in DOMAIN kids : \A l \in DOMAIN kids :
        k < l => h[kids[k]].end <= h[kids[l]].start

\* C16: once the "}" matching a block's "{" has been processed the block
\* starts at its prelude boundary and ends one past that "}", so that
\* text[start:end] is the prelude, then "{", and ends with the matching "}";
\* in the tree returned for a balanced text every child's range lies
\* strictly inside its parent's and the ranges of siblings (the children of
\* one block, and the roots) are disjoint and increasing in document order.
C16_ClosedOffsets ==
    /\ \A b \in Blocks :
          Closed(b) =>
             LET i == NthOpen(input_str, b)
                 j == MatchingClose(input_str, i)
                 span == Slice(input_str, heap[b].start, heap[b].end)
             IN  /\ heap[b].start = Boundary(input_str, SpanStart(input_str, i), i)
                 /\ heap[b].end = j + 1
                 /\ Len(span) = heap[b].end - heap[b].start
                 /\ Slice(span, 0, Len(heap[b].rule)) = heap[b].rule
                 /\ heap[b].start + Len(heap[b].rule) = i
                 /\ Slice(span, Len(heap[b].rule), Len(heap[b].rule) + 1) = <<LBrace>>
                 /\ Slice(span, Len(span) - 1, Len(span)) = <<RBrace>>
    /\ (pstate = "returned" /\ Balanced(input_str)) =>
          /\ \A b \in Blocks :
                /\ Closed(b)
                /\ \A k \in DOMAIN heap[b].children :
                      LET c == heap[b].children[k]
                      IN  /\ heap[b].start < heap[c].start
                          /\ heap[c].start < heap[c].end
                          /\ heap[c].end < heap[b].end
                /\ Increasing(heap, heap[b].children)
          /\ Increasing(heap, blocks)

\* the tree returned for a balanced text: a block with two children that
\* have preludes, all three closed
C16_Witness ==
    /\ pstate = "returned"
    /\ Balanced(input_str)
    /\ \E b \in Blocks :
          /\ Len(heap[b].children) = 2
          /\ heap[b].rule /= <<>>
          /\ \A k \in 1..2 : heap[heap[b].children[k]].rule /= <<>>
          /\ heap[heap[b].children[1]].end <= heap[heap[b].children[2]].start

----------------------------------------------------------------------------
(* C17 *)

\* the set of the first k elements of a sequence
Distinct(toks, k) == {toks[n] : n \in 1..k}

\* the index build has ended without error
Built == mstate \in {"remove", "parse", "done"} \/ (mstate = "raised" /\ fi > 0)

\* C17: in every state the running total is the sum of the lengths of all
\* tokens examined so far, every occurrence counted, and is at most the
\* ceiling, and the set holds exactly the distinct tokens examined so far;
\* once the build has ended without error the line reported after
\* "Building index..." gives that total as the size and the number of
\* distinct tokens as the count, and while stylesheets are parsed the index
\* and the total stay what they were at the report.
C17_IndexAccounting ==
    LET seen == AllTokens(search_files, si)
        all  == AllTokens(search_files, Len(search_files))
    IN  /\ Examined \in 0..Len(seen)
        /\ index_size = SumLen(seen, Examined)
        /\ index_size <= max_index_size
        /\ index = Distinct(seen, Examined)
        /\ Built =>
              /\ Len(stdout) >= 3
              /\ stdout[Len(stdout) - 1] =
                    <<"Index size", SumLen(all, Len(all)),
                      Cardinality(Distinct(all, Len(all)))>>
              /\ stdout[Len(stdout)] = <<"Removing unused styles...">>
              /\ index = Distinct(all, Len(all))
              /\ index_size = SumLen(all, Len(all))
        /\ ~Built => \A k \in DOMAIN stdout : stdout[k][1] /= "Index size"

\* a stylesheet is being parsed after a build that examined one token twice:
\* the reported size counts both occurrences, the reported count only one
C17_Witness ==
    /\ mstate = "parse"
    /\ pstate = "scan"
    /\ match_pos > 0
    /\ Cardinality(index) < Examined
    /\ Len(stdout) >= 3
    /\ stdout[Len(stdout) - 1] = <<"Index size", index_size, Cardinality(index)>>
    /\ index_size > SumLen(AllTokens(search_files, 1), Len(AllTokens(search_files, 1)))

----------------------------------------------------------------------------
(* C18 *)

\* C18 as stated: for every block whose prelude starts with "@",
\* get_normalized_rule returns, without error, the prelude with all
\* surrounding whitespace stripped and every "&" left as written, whether the
\* block is a root or nested, and get_selectors returns no selector list.
C18_AtRuleNotExpanded ==
    \A b \in Blocks :
        StartsWithAt(heap[b].rule) =>
            /\ get_normalized_rule(heap, b) = Return(Strip(heap[b].rule, Whitespace))
            /\ get_selectors(heap, b) = [exc |-> "", none |-> TRUE, val |-> <<>>]

----------------------------------------------------------------------------
(* C19 *)

\* C19: in every tree state reached by parse no prelude holds "{", "}", ";"
\* or a newline and no body holds "{" or "}".
C19_NoStructuralChars ==
    \A b \in Blocks :
        /\ \A k \in DOMAIN heap[b].rule :
              heap[b].rule[k] \notin {LBrace, RBrace, Semi, NL}
        /\ \A k \in DOMAIN heap[b].content : ~IsBrace(heap[b].content[k])

\* a nested block with a prelude that starts right after a ";" which went,
\* with the text before it, into the parent's body
C19_Witness ==
    \E b \in Blocks :
        /\ heap[b].rule /= <<>>
        /\ heap[b].parent /= None
        /\ heap[b].start > 0
        /\ input_str[heap[b].start] = Semi
        /\ Contains(heap[heap[b].parent].content, Semi)

----------------------------------------------------------------------------
(* C20 *)

\* C20: on every block of a tree built by parse get_normalized_rule
\* terminates: a block's parent was created before it, so the recursion,
\* which only moves to the parent, makes at most as many calls as the block
\* has ancestors, itself included; and a string returned for a block whose
\* prelude does not start with "@" holds no "&".
C20_NormalizeTerminates ==
    \A b \in Blocks :
        /\ heap[b].parent = None \/ heap[b].parent \in 1..(b - 1)
        /\ Calls(heap, b) <= Cardinality(OpenChain(heap, b))
        /\ get_normalized_rule(heap, b).exc \in {"", "Exception", "IndexError"}
        /\ (get_normalized_rule(heap, b).exc = "" /\ ~StartsWithAt(heap[b].rule)) =>
              ~Contains(get_normalized_rule(heap, b).val, Amp)

\* a block whose "&" stands for a parent whose own "&" stands for the
\* grandparent: three calls, and a selector is returned
C20_Witness ==
    \E b \in Blocks :
        /\ Contains(heap[b].rule, Amp)
        /\ Calls(heap, b) >= 3
        /\ get_normalized_rule(heap, b).exc = ""
        /\ get_normalized_rule(heap, b).val /= <<>>

=============================================================================
